---- MODULE Spec2Model ----
(***************************************************************************)
(* A model of wtf-peewee: the model-to-form field converter               *)
(* (wtfpeewee/orm.py) and the query-backed select / hidden fields         *)
(* (wtfpeewee/fields.py).                                                  *)
(*                                                                         *)
(* Python values are pairs <<type, text>>.  Python lists that are shared  *)
(* by reference (the validators and filters lists) live in `heap` and are *)
(* named by their index, so that aliasing between the caller's field_args *)
(* and the generated fields is visible.  Python dicts are functions whose *)
(* DOMAIN is the set of keys.                                              *)
(***************************************************************************)
EXTENDS Integers, Sequences, FiniteSets, TLC

VARIABLES
    schema,       \* the peewee model class handed to model_form
    field_args,   \* the caller's (shared) field_args dict: name -> kwargs dict
    converter,    \* the ModelConverter instance (overrides, additional, ...)
    heap,         \* the Python list objects, by reference
    forms,        \* the results of the model_form calls made so far
    call,         \* the arguments of the most recent model_form call
    lists0,       \* the caller's list objects as the caller built them (history)
    shown,        \* what the most recent iter_choices call yielded
    store,        \* rows of the model the query-backed field selects from
    fld,          \* the query-backed field object
    hist,         \* what the caller has observed of the field (history)
    bound,        \* the field of a form instance built from submitted data
    obj           \* the in-memory model instance handed to populate_obj

vars == <<schema, field_args, converter, heap, forms, call, lists0, shown, store, fld, hist,
          bound, obj>>
convVars == <<schema, field_args, converter, heap, forms, call, lists0, shown, bound>>
queryVars == <<store, fld, hist>>

(***************************************************************************)
(* Bounds of the model.                                                    *)
(***************************************************************************)
MaxForms == 2
MaxRows == 2
MaxSubmit == 2

(***************************************************************************)
(* Python values.                                                          *)
(***************************************************************************)
None == <<"NoneType", "None">>
PyStr(s) == <<"str", s>>
PyInt(s) == <<"int", s>>
PyBool(s) == <<"bool", s>>
PyFunc(s) == <<"function", s>>

Digits == {"0", "1", "2", "3"}

(***************************************************************************)
(* Python dict helpers.                                                    *)
(***************************************************************************)
EmptyDict == [k \in {} |-> None]
Has(d, k) == k \in DOMAIN d
Get(d, k, dflt) == IF k \in DOMAIN d THEN d[k] ELSE dflt
Update(a, b) == [k \in DOMAIN a \cup DOMAIN b |-> IF k \in DOMAIN b THEN b[k] ELSE a[k]]
Pop(d, k) == [x \in DOMAIN d \ {k} |-> d[x]]

(***************************************************************************)
(* The peewee column classes imported by orm.py and their subclass        *)
(* relation; CustomField stands for a user-defined peewee.Field subclass. *)
(***************************************************************************)
Parent(t) ==
    CASE t = "AutoField" -> "IntegerField"
      [] t = "BigIntegerField" -> "IntegerField"
      [] t = "SmallIntegerField" -> "IntegerField"
      [] t = "IPField" -> "BigIntegerField"
      [] t = "TimestampField" -> "BigIntegerField"
      [] t = "DoubleField" -> "FloatField"
      [] OTHER -> "Field"

RECURSIVE Ancestors(_)
Ancestors(t) == IF t = "Field" THEN {t} ELSE {t} \cup Ancestors(Parent(t))

IsInstance(t, c) == c \in Ancestors(t)

(***************************************************************************)
(* ModelConverter's class-level registries.                                *)
(***************************************************************************)
defaults ==
    << <<"AutoField", "HiddenField">>,
       <<"BigIntegerField", "IntegerField">>,
       <<"DoubleField", "FloatField">>,
       <<"IPField", "TextField">>,
       <<"SmallIntegerField", "IntegerField">>,
       <<"TimestampField", "WPDateTimeField">>,
       <<"BareField", "TextField">>,
       <<"BlobField", "TextAreaField">>,
       <<"BooleanField", "BooleanField">>,
       <<"CharField", "TextField">>,
       <<"DateField", "WPDateField">>,
       <<"DateTimeField", "WPDateTimeField">>,
       <<"DecimalField", "DecimalField">>,
       <<"FloatField", "FloatField">>,
       <<"IntegerField", "IntegerField">>,
       <<"TextField", "TextAreaField">>,
       <<"TimeField", "WPTimeField">>,
       <<"UUIDField", "TextField">> >>

coerce_defaults ==
    [t \in {"BigIntegerField", "CharField", "DoubleField", "FloatField",
            "IntegerField", "SmallIntegerField", "TextField", "UUIDField"} |->
        CASE t \in {"BigIntegerField", "IntegerField", "SmallIntegerField"} -> "int"
          [] t \in {"DoubleField", "FloatField"} -> "float"
          [] OTHER -> "text_type"]

required == {"CharField", "DateTimeField", "ForeignKeyField", "AutoField",
             "TextField", "UUIDField"}

\* issubclass(widget, f.FormField): WPDateTimeField is the only FormField.
IsFormField(w) == w = "WPDateTimeField"

\* dict.update on an insertion-ordered dict: an entry for a class already
\* registered replaces the handler where it stands, a new class goes last
RECURSIVE UpdateRegistry(_, _)
UpdateRegistry(registry, additional) ==
    IF additional = <<>> THEN registry
    ELSE LET e == Head(additional)
             at == {i \in 1..Len(registry) : registry[i][1] = e[1]}
         IN  UpdateRegistry(IF at = {} THEN Append(registry, e)
                            ELSE [i \in 1..Len(registry) |->
                                     IF i \in at THEN e ELSE registry[i]],
                            Tail(additional))

\* ModelConverter.__init__
NewConverter(additional, additional_coerce, overrides) ==
    [converters |-> UpdateRegistry(<<<<"ForeignKeyField", "handle_foreign_key">>>>, additional),
     coerce_settings |-> Update(coerce_defaults, additional_coerce),
     overrides |-> overrides]

(***************************************************************************)
(* Field descriptors and model classes.                                    *)
(***************************************************************************)
Col(name, type, null, default, choices) ==
    [name |-> name, type |-> type, null |-> null, default |-> default,
     choices |-> choices, primary_key |-> FALSE, has_wtf_field |-> FALSE,
     rel_model |-> "", verbose_name |-> name, help_text |-> ""]

PK(col) == [col EXCEPT !.primary_key = TRUE]
FK(name, null, target) ==
    [Col(name, "ForeignKeyField", null, None, <<>>) EXCEPT !.rel_model = target]

\* model._meta.sorted_fields: peewee sorts the primary key (when the model has
\* one) before the other columns, which keep their declaration order.
RECURSIVE SelectCols(_, _)
SelectCols(cols, pk) ==
    IF cols = <<>> THEN <<>>
    ELSE (IF Head(cols).primary_key = pk THEN <<Head(cols)>> ELSE <<>>)
         \o SelectCols(Tail(cols), pk)

sorted_fields(model) == SelectCols(model.fields, TRUE) \o SelectCols(model.fields, FALSE)

(***************************************************************************)
(* ModelConverter.convert.  A conversion state s is [heap, kw]: the list   *)
(* objects and the kwargs dict being accumulated.                          *)
(***************************************************************************)
\* Python truthiness of an only / exclude argument: None or a list of names.
Truthy(names) == names # None /\ Len(names) > 0

\* Truthiness of field.choices: None and () are both written <<>>.
HasChoices(choices) == Len(choices) > 0

\* The outcome of convert / model_fields: a FieldInfo, or a raised exception.
\* `about` is what the exception names, `field` the column being converted.
Returned(h, info) ==
    [ok |-> TRUE, heap |-> h, info |-> info, exc |-> "", about |-> "", field |-> ""]
Raised(h, exc, about, field) ==
    [ok |-> FALSE, heap |-> h, info |-> None, exc |-> exc, about |-> about, field |-> field]

\* FieldInfo(name, cls(**kwargs)): the unbound field keeps its kwargs as given.
FieldInfo(name, cls, kw) == [name |-> name, cls |-> cls, kwargs |-> kw]

\* kwargs = {'label': ..., 'validators': [], 'filters': [], ...}; kwargs.update(field_args)
BaseKwargs(h, field, fa) ==
    LET kw == [label |-> PyStr(field.verbose_name),
               validators |-> Len(h) + 1,
               filters |-> Len(h) + 2,
               default |-> field.default,
               description |-> PyStr(field.help_text)]
    IN  [heap |-> h \o << <<>>, <<>> >>,
         kw |-> IF DOMAIN fa # {} THEN Update(kw, fa) ELSE kw]

\* if kwargs['validators']: kwargs['validators'] = list(kwargs['validators'])
CopyValidators(s) ==
    IF s.heap[s.kw.validators] # <<>>
    THEN [heap |-> Append(s.heap, s.heap[s.kw.validators]),
          kw |-> [s.kw EXCEPT !.validators = Len(s.heap) + 1]]
    ELSE s

\* Faulty variant of NullFilter: no filter is added for a nullable column.
NullFilter_Never(s, field) == s

\* if field.null: kwargs['filters'].append(handle_null_filter)
NullFilter(s, field) ==
    IF field.null
    THEN [s EXCEPT !.heap[s.kw.filters] = Append(@, "handle_null_filter")]
    ELSE s

\* Faulty variant of AutoValidator: the required tuple is consulted before the default.
AutoValidator_RequiredFirst(s, field) ==
    IF field.null /\ ~HasChoices(field.choices)
    THEN [s EXCEPT !.heap[s.kw.validators] = Append(@, "Optional")]
    ELSE IF \E r \in required : IsInstance(field.type, r)
         THEN [s EXCEPT !.heap[s.kw.validators] = Append(@, "Required")]
         ELSE IF field.default # None /\ ~HasChoices(field.choices)
              THEN [s EXCEPT !.heap[s.kw.validators] = Append(@, "Optional")]
              ELSE s

\* the Optional / Required validator appended to kwargs['validators']
AutoValidator(s, field) ==
    IF (field.null \/ field.default # None) /\ ~HasChoices(field.choices)
    THEN [s EXCEPT !.heap[s.kw.validators] = Append(@, "Optional")]
    ELSE IF \E r \in required : IsInstance(field.type, r)
         THEN [s EXCEPT !.heap[s.kw.validators] = Append(@, "Required")]
         ELSE s

\* Faulty variant of handle_foreign_key: a nullable key does not allow the blank choice.
handle_foreign_key_NoBlank(model, field, kw) ==
    IF Len(field.choices) > 0
    THEN FieldInfo(field.name, "SelectQueryField", Update(kw, [query |-> field.choices]))
    ELSE FieldInfo(field.name, "ModelSelectField", Update(kw, [model |-> field.rel_model]))

handle_foreign_key(model, field, kw) ==
    LET kw1 == IF field.null THEN Update(kw, [allow_blank |-> TRUE]) ELSE kw
    IN  IF Len(field.choices) > 0
        THEN FieldInfo(field.name, "SelectQueryField", Update(kw1, [query |-> field.choices]))
        ELSE FieldInfo(field.name, "ModelSelectField", Update(kw1, [model |-> field.rel_model]))

\* self.converters[converter](model, field, **kwargs)
CallConverter(handler, model, field, kw) ==
    IF handler = "handle_foreign_key"
    THEN handle_foreign_key(model, field, kw)
    ELSE FieldInfo(field.name, handler, kw)

\* The first entry of an ordered registry the column is an instance of (0: none).
FirstMatch(registry, type) ==
    LET hits == {i \in 1..Len(registry) : IsInstance(type, registry[i][1])}
    IN  IF hits = {} THEN 0 ELSE CHOOSE i \in hits : \A j \in hits : i <= j

\* Faulty variant of ConvertDefault: the coercion default is looked up without the guard,
\* so a column with choices and no coercion function raises.
ConvertDefault_Unguarded(conv, field, s, i) ==
    LET c == defaults[i][1]
        widget == defaults[i][2]
        kw1 == IF IsFormField(widget) THEN Pop(s.kw, "filters") ELSE s.kw
    IN  IF HasChoices(field.choices) \/ Has(kw1, "choices")
        THEN LET choices == Get(kw1, "choices", field.choices)
                 kw2 == Pop(kw1, "choices")
             IN  IF c \notin DOMAIN conv.coerce_settings
                 THEN Raised(s.heap, "KeyError", c, field.name)
                 ELSE LET coerce_fn == Get(kw2, "coerce", conv.coerce_settings[c])
                          kw3 == Pop(kw2, "coerce")
                          allow_blank == Get(kw3, "allow_blank", field.null)
                          kw4 == Update(Pop(kw3, "allow_blank"),
                                        [choices |-> choices,
                                         coerce |-> coerce_fn,
                                         allow_blank |-> allow_blank])
                      IN  Returned(s.heap, FieldInfo(field.name, "SelectChoicesField", kw4))
        ELSE Returned(s.heap, FieldInfo(field.name, widget, kw1))

\* The body of `for converter in self.defaults` for the matching entry.
ConvertDefault(conv, field, s, i) ==
    LET c == defaults[i][1]
        widget == defaults[i][2]
        kw1 == IF IsFormField(widget) THEN Pop(s.kw, "filters") ELSE s.kw
    IN  IF HasChoices(field.choices) \/ Has(kw1, "choices")
        THEN LET choices == Get(kw1, "choices", field.choices)
                 kw2 == Pop(kw1, "choices")
             IN  IF c \in DOMAIN conv.coerce_settings \/ Has(kw2, "coerce")
                 THEN IF c \notin DOMAIN conv.coerce_settings
                      THEN \* the default argument self.coerce_settings[converter]
                           \* is evaluated before kwargs.pop is called
                           Raised(s.heap, "KeyError", c, field.name)
                      ELSE LET coerce_fn == Get(kw2, "coerce", conv.coerce_settings[c])
                               kw3 == Pop(kw2, "coerce")
                               allow_blank == Get(kw3, "allow_blank", field.null)
                               kw4 == Update(Pop(kw3, "allow_blank"),
                                             [choices |-> choices,
                                              coerce |-> coerce_fn,
                                              allow_blank |-> allow_blank])
                           IN  Returned(s.heap, FieldInfo(field.name, "SelectChoicesField", kw4))
                 ELSE Returned(s.heap, FieldInfo(field.name, widget, kw2))
        ELSE Returned(s.heap, FieldInfo(field.name, widget, kw1))

\* Faulty variant of Dispatch: the column's wtf_field hook is consulted before the
\* converter's overrides.
Dispatch_HookFirst(conv, model, field, s) ==
    IF field.has_wtf_field
    THEN Returned(s.heap, FieldInfo(field.name, "wtf_field", s.kw))
    ELSE IF field.name \in DOMAIN conv.overrides
    THEN Returned(s.heap, FieldInfo(field.name, conv.overrides[field.name], s.kw))
    ELSE LET special == FirstMatch(conv.converters, field.type)
             dflt == FirstMatch(defaults, field.type)
         IN  IF special # 0
             THEN Returned(s.heap, CallConverter(conv.converters[special][2], model, field, s.kw))
             ELSE IF dflt # 0
             THEN ConvertDefault(conv, field, s, dflt)
             ELSE Raised(s.heap, "AttributeError", field.type, field.name)

\* The rule chosen for the column, from the per-name override down to the
\* defaults registry; AttributeError when nothing matches.
Dispatch(conv, model, field, s) ==
    IF field.name \in DOMAIN conv.overrides
    THEN Returned(s.heap, FieldInfo(field.name, conv.overrides[field.name], s.kw))
    ELSE IF field.has_wtf_field
    THEN Returned(s.heap, FieldInfo(field.name, "wtf_field", s.kw))
    ELSE LET special == FirstMatch(conv.converters, field.type)
             dflt == FirstMatch(defaults, field.type)
         IN  IF special # 0
             THEN Returned(s.heap, CallConverter(conv.converters[special][2], model, field, s.kw))
             ELSE IF dflt # 0
             THEN ConvertDefault(conv, field, s, dflt)
             ELSE Raised(s.heap, "AttributeError", field.type, field.name)

convert(conv, model, field, fa, h) ==
    Dispatch(conv, model, field,
             AutoValidator(NullFilter(CopyValidators(BaseKwargs(h, field, fa)), field), field))

(***************************************************************************)
(* model_fields and model_form.                                            *)
(***************************************************************************)
NameIn(name, names) == \E i \in 1..Len(names) : names[i] = name

RECURSIVE KeepCols(_, _, _)
KeepCols(cols, names, keep) ==
    IF cols = <<>> THEN <<>>
    ELSE (IF NameIn(Head(cols).name, names) = keep THEN <<Head(cols)>> ELSE <<>>)
         \o KeepCols(Tail(cols), names, keep)

\* model_fields.pop(0) when not allow_pk
DropPk(cols, allow_pk) == IF ~allow_pk THEN Tail(cols) ELSE cols

\* the only / exclude filter
FilterCols(cols, only, exclude) ==
    IF Truthy(only) THEN KeepCols(cols, only, TRUE)
    ELSE IF Truthy(exclude) THEN KeepCols(cols, exclude, FALSE)
    ELSE cols

\* the surviving descriptors, in the order they are converted
Surviving(model, allow_pk, only, exclude) ==
    FilterCols(DropPk(sorted_fields(model), allow_pk), only, exclude)

\* Faulty variant of ConvertAll: a column that cannot be converted is skipped.
RECURSIVE ConvertAll_Skip(_, _, _, _, _, _)
ConvertAll_Skip(conv, model, cols, fargs, h, field_dict) ==
    IF cols = <<>> THEN Returned(h, field_dict)
    ELSE LET r == convert(conv, model, Head(cols), Get(fargs, Head(cols).name, EmptyDict), h)
         IN  IF r.ok
             THEN ConvertAll_Skip(conv, model, Tail(cols), fargs, r.heap, Append(field_dict, r.info))
             ELSE ConvertAll_Skip(conv, model, Tail(cols), fargs, r.heap, field_dict)

\* for model_field in model_fields: ... field_dict[name] = field; the dict is
\* written as the list of its FieldInfo entries in insertion order.
RECURSIVE ConvertAll(_, _, _, _, _, _)
ConvertAll(conv, model, cols, fargs, h, field_dict) ==
    IF cols = <<>> THEN Returned(h, field_dict)
    ELSE LET r == convert(conv, model, Head(cols), Get(fargs, Head(cols).name, EmptyDict), h)
         IN  IF r.ok
             THEN ConvertAll(conv, model, Tail(cols), fargs, r.heap, Append(field_dict, r.info))
             ELSE r

model_fields(model, allow_pk, only, exclude, fargs, conv, h) ==
    ConvertAll(conv, model, Surviving(model, allow_pk, only, exclude), fargs, h, <<>>)

(***************************************************************************)
(* SelectChoicesField (fields.py).                                         *)
(***************************************************************************)
ValueError == <<"ValueError", "">>
TypeError == <<"TypeError", "">>
IsError(v) == v \in {ValueError, TypeError}

IsNum(v) == v[1] \in {"int", "float", "bool"}
NumText(v) == IF v[1] = "bool" THEN (IF v[2] = "True" THEN "1" ELSE "0") ELSE v[2]

\* Python's ==: numbers compare by value across int, float and bool.
PyEq(a, b) == IF IsNum(a) /\ IsNum(b) THEN NumText(a) = NumText(b) ELSE a = b

\* the coercion functions int, float, text_type and bool applied to a value
Coerce(fn, v) ==
    CASE fn \in {"int", "float"} ->
            IF v = None THEN TypeError
            ELSE IF IsNum(v) THEN <<fn, NumText(v)>>
            ELSE IF v[2] \in Digits THEN <<fn, v[2]>>
            ELSE ValueError
      [] fn = "text_type" -> PyStr(v[2])
      [] fn = "bool" ->
            IF v = None \/ v[2] = "" \/ (IsNum(v) /\ NumText(v) = "0")
            THEN PyBool("False") ELSE PyBool("True")
      [] OTHER -> v

\* SelectChoicesField.__init__ from the kwargs the converter accumulated
SelectChoicesField(kw) ==
    [choices |-> Get(kw, "choices", <<>>),
     coerce |-> Get(kw, "coerce", "text_type"),
     allow_blank |-> Get(kw, "allow_blank", FALSE),
     blank_text |-> IF Get(kw, "blank_text", "") = "" THEN "----------------"
                    ELSE kw.blank_text,
     data |-> None]

\* SelectChoicesField.process_data
process_data(f, value) ==
    IF value = None THEN [f EXCEPT !.data = None]
    ELSE IF IsError(Coerce(f.coerce, value)) THEN [f EXCEPT !.data = None]
    ELSE [f EXCEPT !.data = Coerce(f.coerce, value)]

\* Faulty variant of iter_choices: the blank triple is yielded after the choices.
iter_choices_BlankLast(f) ==
    [i \in 1..Len(f.choices) |->
          <<f.choices[i][1], f.choices[i][2],
            PyEq(Coerce(f.coerce, f.choices[i][1]), f.data)>>]
    \o (IF f.allow_blank
        THEN << <<PyStr("__None"), f.blank_text, f.data = None>> >>
        ELSE <<>>)

\* SelectChoicesField.iter_choices, as the list of the triples it yields
iter_choices(f) ==
    (IF f.allow_blank
     THEN << <<PyStr("__None"), f.blank_text, f.data = None>> >>
     ELSE <<>>)
    \o [i \in 1..Len(f.choices) |->
          <<f.choices[i][1], f.choices[i][2],
            PyEq(Coerce(f.coerce, f.choices[i][1]), f.data)>>]

\* SelectChoicesField.process_formdata: the field afterwards and the message of
\* the ValueError it raises ("" when it raises none)
ChoicesFormdata(f, valuelist) ==
    IF Len(valuelist) = 0 THEN [f |-> f, error |-> ""]
    ELSE IF valuelist[1] = PyStr("__None") THEN [f |-> [f EXCEPT !.data = None], error |-> ""]
    ELSE IF Coerce(f.coerce, valuelist[1]) = ValueError
         THEN [f |-> f, error |-> "Invalid Choice: could not coerce"]
         ELSE [f |-> [f EXCEPT !.data = Coerce(f.coerce, valuelist[1])], error |-> ""]

\* SelectChoicesField.pre_validate: the message of the error it raises, "" for none;
\* the inherited SelectField.pre_validate accepts the data equal to a choice value
ChoicesPreValidate(f) ==
    IF f.allow_blank /\ f.data = None THEN ""
    ELSE IF \E i \in 1..Len(f.choices) : PyEq(f.choices[i][1], f.data) THEN ""
    ELSE "Not a valid choice"

(***************************************************************************)
(* A field of a form instance built from submitted data,                   *)
(* Form(FakePost({name: raw})), and its validation: process_formdata, the  *)
(* filters, pre_validate, then the validators in list order.               *)
(***************************************************************************)
\* handle_null_filter
handle_null_filter(data) == IF data = PyStr("") THEN None ELSE data

\* for filter in self.filters: self.data = filter(self.data)
RECURSIVE ApplyFilters(_, _)
ApplyFilters(filters, data) ==
    IF filters = <<>> THEN data
    ELSE ApplyFilters(Tail(filters),
                      IF Head(filters) = "handle_null_filter"
                      THEN handle_null_filter(data) ELSE data)

\* Python truthiness of a field's data
TruthyData(data) ==
    /\ data # None
    /\ data[2] # ""
    /\ ~(IsNum(data) /\ NumText(data) = "0")

\* validators.Optional ends validation without errors when nothing was submitted;
\* validators.Required ends it with its own error when the data is falsy
RECURSIVE RunValidators(_, _, _, _)
RunValidators(validators, raw, data, errors) ==
    IF validators = <<>> THEN errors
    ELSE IF Head(validators) = "Optional" /\ raw = PyStr("") THEN <<>>
    ELSE IF Head(validators) = "Required" /\ ~TruthyData(data)
         THEN <<"This field is required.">>
    ELSE RunValidators(Tail(validators), raw, data, errors)

\* the classes of generated field a submission is modelled for
Postable == {"TextField", "TextAreaField", "BooleanField", "SelectChoicesField"}

\* process_formdata of the plain widgets: a text field keeps the submitted
\* string, a boolean field coerces it to bool
WidgetFormdata(cls, raw) ==
    IF cls = "BooleanField"
    THEN (IF raw = PyStr("") THEN PyBool("False") ELSE PyBool("True"))
    ELSE raw

\* Form(FakePost({name: raw})).validate() seen from the field `info` (a FieldInfo
\* whose list objects are in h)
BoundField(h, info, raw) ==
    LET kw == info.kwargs
        unbound == process_data(SelectChoicesField(kw), Get(kw, "default", None))
        sent == ChoicesFormdata(unbound, <<raw>>)
        processed == IF info.cls = "SelectChoicesField" THEN sent.f.data
                     ELSE WidgetFormdata(info.cls, raw)
        process_errors == IF info.cls = "SelectChoicesField" /\ sent.error # ""
                          THEN <<sent.error>> ELSE <<>>
        data == IF Has(kw, "filters") THEN ApplyFilters(h[kw.filters], processed)
                ELSE processed
        pre == IF info.cls = "SelectChoicesField"
               THEN ChoicesPreValidate([sent.f EXCEPT !.data = data]) ELSE ""
        errors == RunValidators(h[kw.validators], raw, data,
                                process_errors \o (IF pre # "" THEN <<pre>> ELSE <<>>))
    IN  [field |-> info.name, raw |-> raw, data |-> data, errors |-> errors,
         valid |-> errors = <<>>]

(***************************************************************************)
(* The model classes of the test-suite (tests.py), a model with a column   *)
(* type the converter does not know, and a model without a primary key.    *)
(* A model class is [name, fields (in declaration order), pool]; `pool`    *)
(* holds the two column names the callers below put in only / exclude.     *)
(***************************************************************************)
Now == PyFunc("datetime.now")
ImplicitId == PK(Col("id", "AutoField", FALSE, None, <<>>))

Blog ==
    [name |-> "Blog",
     fields |-> << Col("title", "CharField", FALSE, None, <<>>), ImplicitId >>,
     pool |-> <<"title", "id">>]

Entry ==
    [name |-> "Entry",
     fields |-> << PK(Col("pk", "AutoField", FALSE, None, <<>>)),
                   FK("blog", FALSE, "Blog"),
                   Col("title", "CharField", FALSE, None, <<>>),
                   Col("content", "TextField", FALSE, None, <<>>),
                   Col("pub_date", "DateTimeField", FALSE, Now, <<>>) >>,
     pool |-> <<"title", "content">>]

NullEntry ==
    [name |-> "NullEntry",
     fields |-> << FK("blog", TRUE, "Blog"), ImplicitId >>,
     pool |-> <<"blog", "id">>]

NullFieldsModel ==
    [name |-> "NullFieldsModel",
     fields |-> << Col("c", "CharField", TRUE, None, <<>>),
                   Col("b", "BooleanField", TRUE, None, <<>>),
                   ImplicitId >>,
     pool |-> <<"c", "b">>]

ChoicesModel ==
    [name |-> "ChoicesModel",
     fields |-> << Col("gender", "CharField", FALSE, None,
                       << <<PyStr("m"), "Male">>, <<PyStr("f"), "Female">> >>),
                   Col("status", "IntegerField", TRUE, None,
                       << <<PyInt("1"), "One">>, <<PyInt("2"), "Two">> >>),
                   Col("salutation", "CharField", TRUE, None, <<>>),
                   Col("true_or_false", "BooleanField", FALSE, None,
                       << <<PyBool("True"), "t">>, <<PyBool("False"), "f">> >>),
                   ImplicitId >>,
     pool |-> <<"status", "true_or_false">>]

NonIntPKModel ==
    [name |-> "NonIntPKModel",
     fields |-> << PK(Col("id", "CharField", FALSE, None, <<>>)),
                   Col("value", "CharField", FALSE, None, <<>>) >>,
     pool |-> <<"value", "id">>]

\* a column of a Field subclass that no registry knows
Shape ==
    [name |-> "Shape",
     fields |-> << Col("name", "CharField", FALSE, None, <<>>),
                   Col("geo", "CustomField", FALSE, None, <<>>),
                   Col("size", "IntegerField", FALSE, PyInt("1"), <<>>),
                   ImplicitId >>,
     pool |-> <<"geo", "name">>]

\* class Meta: primary_key = False
Log ==
    [name |-> "Log",
     fields |-> << Col("msg", "CharField", FALSE, None, <<>>),
                   Col("level", "IntegerField", TRUE, None, <<>>) >>,
     pool |-> <<"msg", "level">>]

\* a nullable short-text column with fixed choices
Profile ==
    [name |-> "Profile",
     fields |-> << Col("gender", "CharField", TRUE, None,
                       << <<PyStr("m"), "Male">>, <<PyStr("f"), "Female">> >>),
                   Col("nick", "CharField", TRUE, None, <<>>),
                   ImplicitId >>,
     pool |-> <<"gender", "nick">>]

\* one column of every registered subclass of another registered column class
Host ==
    [name |-> "Host",
     fields |-> << Col("addr", "IPField", FALSE, None, <<>>),
                   Col("seen", "TimestampField", FALSE, None, <<>>),
                   Col("hits", "BigIntegerField", FALSE, None, <<>>),
                   Col("port", "SmallIntegerField", FALSE, None, <<>>),
                   Col("load", "DoubleField", FALSE, None, <<>>),
                   ImplicitId >>,
     pool |-> <<"addr", "seen">>]

\* foreign keys restricted to a query: ForeignKeyField(Blog, choices=Blog.select().where(...))
Comment ==
    [name |-> "Comment",
     fields |-> << [FK("blog", FALSE, "Blog") EXCEPT !.choices = <<"Blog.select().where(...)">>],
                   [FK("mirror", TRUE, "Blog") EXCEPT !.choices = <<"Blog.select().where(...)">>],
                   FK("origin", FALSE, "Blog"),
                   ImplicitId >>,
     pool |-> <<"blog", "mirror">>]

\* columns that carry their own wtf_field hook next to plain ones:
\* every rule of convert has a column it could apply to
Gadget ==
    [name |-> "Gadget",
     fields |-> << [Col("code", "CharField", FALSE, None, <<>>) EXCEPT !.has_wtf_field = TRUE],
                   Col("tag", "CharField", TRUE, None, <<>>),
                   [FK("owner", TRUE, "Blog") EXCEPT !.has_wtf_field = TRUE],
                   FK("maker", TRUE, "Blog"),
                   ImplicitId >>,
     pool |-> <<"code", "tag">>]

DefaultConverter == NewConverter(<<>>, EmptyDict, EmptyDict)

(***************************************************************************)
(* The call sites: a model, the caller's field_args with the list objects  *)
(* it holds (the initial heap), and the converter.                         *)
(***************************************************************************)
Site(model, fargs, lists, conv) ==
    [schema |-> model, field_args |-> fargs, heap |-> lists, converter |-> conv]

Salutations == << <<PyStr("mr"), "Mr.">>, <<PyStr("mrs"), "Mrs.">> >>

Sites ==
    { Site(NonIntPKModel, [id |-> [validators |-> 1]], << <<"Regexp">> >>, DefaultConverter),
      Site(NonIntPKModel, [id |-> [validators |-> 1]], << <<>> >>, DefaultConverter),
      Site(NonIntPKModel, EmptyDict, <<>>, DefaultConverter),
      Site(NullFieldsModel, [c |-> [filters |-> 1]], << <<"strip">> >>, DefaultConverter),
      Site(NullFieldsModel, [c |-> [validators |-> 1, filters |-> 2]],
           << <<"Regexp", "Length">>, <<>> >>, DefaultConverter),
      Site(ChoicesModel, [salutation |-> [choices |-> Salutations]], <<>>, DefaultConverter),
      Site(ChoicesModel, [status |-> [allow_blank |-> FALSE],
                          gender |-> [allow_blank |-> TRUE, validators |-> 1]],
           << <<"Regexp">> >>, DefaultConverter),
      Site(ChoicesModel, [true_or_false |-> [coerce |-> "bool"]], <<>>, DefaultConverter),
      Site(Blog, [title |-> [default |-> PyStr("hello world")]], <<>>, DefaultConverter),
      Site(Entry, EmptyDict, <<>>, DefaultConverter),
      Site(NullEntry, EmptyDict, <<>>, DefaultConverter),
      Site(Shape, EmptyDict, <<>>, DefaultConverter),
      Site(Shape, EmptyDict, <<>>,
           NewConverter(<<>>, EmptyDict, [geo |-> "TextField"])),
      Site(Shape, EmptyDict, <<>>,
           NewConverter(<< <<"CustomField", "handle_custom">> >>, EmptyDict, EmptyDict)),
      Site(Log, EmptyDict, <<>>, DefaultConverter),
      Site(NullFieldsModel, EmptyDict, <<>>, DefaultConverter),
      Site(Profile, EmptyDict, <<>>, DefaultConverter),
      Site(Host, EmptyDict, <<>>, DefaultConverter),
      Site(Comment, EmptyDict, <<>>, DefaultConverter),
      Site(Gadget, EmptyDict, <<>>, DefaultConverter),
      Site(Gadget, [code |-> [default |-> PyStr("x")], tag |-> [validators |-> 1]],
           << <<"Regexp">> >>,
           NewConverter(<< <<"CharField", "handle_char">> >>, EmptyDict,
                        [code |-> "PasswordField", owner |-> "HiddenField"])),
      Site(Gadget, [tag |-> [default |-> PyStr("x")]], <<>>,
           NewConverter(<< <<"CharField", "handle_char">>,
                           <<"ForeignKeyField", "handle_related">> >>,
                        EmptyDict, EmptyDict)) }

\* what a caller passes as (only, exclude): each is None or a list of names
OnlyExclude(model) ==
    LET a == model.pool[1]
        b == model.pool[2]
    IN  { <<None, None>>, <<None, <<>> >>, << <<>>, None>>,
          << <<a>>, None>>, << <<a, b>>, None>>, << <<b, a>>, None>>,
          <<None, <<a>> >>, <<None, <<a, b>> >>, <<None, <<b, a>> >>,
          << <<a>>, <<a, b>> >>, << <<>>, <<a>> >> }


(***************************************************************************)
(* The query-backed fields (fields.py): SelectQueryField,                  *)
(* SelectMultipleQueryField and HiddenQueryField over a query on Blog.     *)
(* A stored row is "in" (the field's query matches it), "out" (stored, but *)
(* the query's where clause does not match it) or "absent".  A model       *)
(* instance is <<"Blog", pk>>; a Python list is <<"list", elements>>.      *)
(***************************************************************************)
BadId == 10000
RowIds == [i \in 1..MaxRows |-> ToString(i)]
Ids == {RowIds[i] : i \in 1..MaxRows}
Instance(pk) == <<"Blog", pk>>
PyList(seq) == <<"list", seq>>
BlankToken == PyStr("__None")

\* the rows the field's query matches now
Matched(st) == {id \in Ids : st[id] = "in"}

\* get_model: self.query.where(primary_key == pk).get(), None on DoesNotExist
get_model(st, pk) ==
    IF pk[2] \in Matched(st) THEN Instance(pk[2]) ELSE None

\* get_model_list: list(self.query.where(primary_key << pk_list)), in key order
RECURSIVE RowsAmong(_, _, _)
RowsAmong(st, keys, i) ==
    IF i > MaxRows THEN <<>>
    ELSE (IF RowIds[i] \in Matched(st) /\ RowIds[i] \in keys
          THEN <<Instance(RowIds[i])>> ELSE <<>>)
         \o RowsAmong(st, keys, i + 1)

get_model_list(st, pk_list) ==
    IF Len(pk_list[2]) > 0
    THEN PyList(RowsAmong(st, {pk_list[2][i][2] : i \in 1..Len(pk_list[2])}, 1))
    ELSE PyList(<<>>)

\* self.query as the constructor stores it: the restrictions added to the
\* query it was given, each the set of keys the restriction admits
OriginalQuery == <<>>

\* the keys a primary-key condition admits: `primary_key == pk` for one
\* identifier, `primary_key << pk_list` for a list
PkCond(v) ==
    IF v[1] = "list" THEN {v[2][i][2] : i \in 1..Len(v[2])} ELSE {v[2]}

\* Faulty variant of where: the condition is added to the field's own query.
where_InPlace(f, cond) == [f EXCEPT !.query = Append(@, cond)]

\* the field after self.query.where(cond) was evaluated: the restricted query
\* is a new object and self.query is left as it was
where(f, cond) == f

\* the rows a query yields, in key order
QueryRows(q, st) ==
    RowsAmong(st, {id \in Ids : \A i \in 1..Len(q) : id \in q[i]}, 1)

\* __init__: allow_blank as given (SelectMultipleQueryField pops it), _set_data(None)
NewQueryField(kind, allow_blank) ==
    [kind |-> kind,
     allow_blank |-> IF kind = "multi" THEN FALSE ELSE allow_blank,
     query |-> OriginalQuery,
     _data |-> None,
     _formdata |-> None]

\* Faulty variant of _set_data: the pending identifier survives the assignment.
_set_data_KeepPending(f, data) == [f EXCEPT !._data = data]

\* _set_data
_set_data(f, data) == [f EXCEPT !._data = data, !._formdata = None]

\* Faulty variant of _get_data: the looked-up rows are stored but the pending identifier
\* is kept, so every read looks it up again.
_get_data_KeepPending(f, st) ==
    IF f._formdata # None
    THEN IF f.kind = "multi"
         THEN [f EXCEPT !._data = get_model_list(st, f._formdata)]
         ELSE [f EXCEPT !._data = get_model(st, f._formdata)]
    ELSE f

\* _get_data: the field after the read; the value read is DataOf of that field
_get_data(f, st) ==
    IF f._formdata # None
    THEN CASE f.kind = "select" ->
                _set_data(where(f, PkCond(f._formdata)), get_model(st, f._formdata))
           [] f.kind = "multi" ->
                _set_data(where(f, PkCond(f._formdata)), get_model_list(st, f._formdata))
           [] OTHER ->
                IF f.allow_blank /\ f._formdata = BlankToken
                THEN _set_data(f, None)
                ELSE _set_data(where(f, PkCond(f._formdata)), get_model(st, f._formdata))
    ELSE f

\* __call__(value=...): rendering with an explicit value looks it up and binds it
__call__(f, st, value) ==
    IF f.kind = "multi"
    THEN _set_data(IF Len(value[2]) > 0 THEN where(f, PkCond(value)) ELSE f,
                   get_model_list(st, value))
    ELSE _set_data(where(f, PkCond(value)), get_model(st, value))

\* what _get_data returns once the pending identifier is resolved
DataOf(f) ==
    IF f.kind = "multi" /\ f._data \in {None, PyList(<<>>)} THEN PyList(<<>>) ELSE f._data

\* int(x) over the submitted strings
IsIntText(v) == v[2] \in Ids \cup {ToString(BadId)}

\* process_formdata; ok is FALSE when it raises ValueError
process_formdata(f, valuelist) ==
    IF Len(valuelist) = 0 THEN [f |-> f, ok |-> TRUE]
    ELSE CASE f.kind = "select" ->
                IF valuelist[1] = BlankToken
                THEN [f |-> _set_data(f, None), ok |-> TRUE]
                ELSE [f |-> [f EXCEPT !._data = None, !._formdata = valuelist[1]], ok |-> TRUE]
           [] f.kind = "multi" ->
                IF \A i \in 1..Len(valuelist) : IsIntText(valuelist[i])
                THEN [f |-> [f EXCEPT !._data = PyList(<<>>),
                                      !._formdata =
                                          PyList([i \in 1..Len(valuelist) |-> PyInt(valuelist[i][2])])],
                      ok |-> TRUE]
                ELSE [f |-> [f EXCEPT !._data = PyList(<<>>)], ok |-> FALSE]
           [] OTHER ->
                [f |-> [f EXCEPT !._data = None,
                                 !._formdata = IF valuelist[1] = PyStr("") THEN None
                                               ELSE valuelist[1]],
                 ok |-> TRUE]

\* Faulty variant of PreValidateSelect: the blank check is left out.
PreValidateSelect_NoBlankCheck(f, st) ==
    IF f._data # None
    THEN IF f._data[2] \notin Matched(st) THEN "Not a valid choice" ELSE "ok"
    ELSE "ok"

\* Faulty variant of PreValidateSelect: the row is not checked against the live query.
PreValidateSelect_BlankOnly(f, st) ==
    IF f._data = None /\ ~f.allow_blank THEN "Selection cannot be blank" ELSE "ok"

\* SelectQueryField.pre_validate on the field whose data has been read
PreValidateSelect(f, st) ==
    IF f._data # None
    THEN IF f._data[2] \notin Matched(st) THEN "Not a valid choice" ELSE "ok"
    ELSE IF ~f.allow_blank THEN "Selection cannot be blank" ELSE "ok"

\* Faulty variant of PreValidateMultiple: the rows are not checked against the live query.
PreValidateMultiple_NoCheck(f, st) == "ok"

\* SelectMultipleQueryField.pre_validate on the field whose data has been read
PreValidateMultiple(f, st) ==
    LET data == DataOf(f)[2]
        id_list == [i \in 1..Len(data) |-> data[i][2]]
        count == Cardinality({id \in Matched(st) : \E i \in 1..Len(id_list) : id_list[i] = id})
    IN  IF Len(data) > 0 /\ Len(id_list) > 0 /\ count # Len(id_list)
        THEN "Not a valid choice"
        ELSE "ok"

\* pre_validate: the field afterwards and the outcome.  HiddenQueryField defines
\* none, so the inherited one runs: it reads nothing and raises nothing.
pre_validate(f, st) ==
    CASE f.kind = "select" ->
            [f |-> IF DataOf(_get_data(f, st)) # None
                   THEN where(_get_data(f, st), PkCond(DataOf(_get_data(f, st))))
                   ELSE _get_data(f, st),
             outcome |-> PreValidateSelect(_get_data(f, st), st)]
      [] f.kind = "multi" ->
            [f |-> IF Len(DataOf(_get_data(f, st))[2]) > 0
                   THEN where(_get_data(f, st), PkCond(DataOf(_get_data(f, st))))
                   ELSE _get_data(f, st),
             outcome |-> PreValidateMultiple(_get_data(f, st), st)]
      [] OTHER -> [f |-> f, outcome |-> "ok"]

\* iter_choices of SelectQueryField and SelectMultipleQueryField: the field
\* afterwards (self.data is read) and the list of the triples yielded, one per
\* row of self.query.clone(); the label is text_type(obj)
iter_choices_query(f, st) ==
    LET g == _get_data(f, st)
        rows == QueryRows(g.query, st)
        selected(o) == IF g.kind = "multi"
                       THEN \E i \in 1..Len(DataOf(g)[2]) : DataOf(g)[2][i] = o
                       ELSE o = DataOf(g)
    IN  [f |-> g,
         triples |->
            (IF g.kind = "select" /\ g.allow_blank
             THEN << <<BlankToken, "----------------", DataOf(g) = None>> >>
             ELSE <<>>)
            \o [i \in 1..Len(rows) |-> <<PyInt(rows[i][2]), rows[i][2], selected(rows[i])>>]]

(***************************************************************************)
(* The life of one query-backed field: construction, submitted data,       *)
(* reads of and assignments to data, validation, and the rows changing     *)
(* underneath it.  `hist` records where the field's value came from        *)
(* (origin), the identifiers last submitted, the keys the lookup found,    *)
(* the outcome and circumstances of the last pre_validate, and the value   *)
(* last assigned and whether the assignment dropped a pending identifier,  *)
(* and whether the choices were listed, before or after a validation.      *)
(***************************************************************************)
NewHist ==
    [origin |-> "unbound", submitted |-> None, resolved |-> {},
     validated |-> "no", vnone |-> FALSE, vlive |-> {},
     assigned |-> None, dropped |-> FALSE, listed |-> "no"]

KeysOf(data) ==
    IF data = None THEN {}
    ELSE IF data[1] = "list" THEN {data[2][i][2] : i \in 1..Len(data[2])}
    ELSE {data[2]}

\* hist after a read of data turned field f into field g
Resolved(h, f, g) ==
    IF f._formdata = None THEN h
    ELSE [h EXCEPT
            !.resolved = KeysOf(g._data),
            !.origin =
                IF f.kind = "hidden" /\ f.allow_blank /\ f._formdata = BlankToken
                THEN "blank"
                ELSE IF KeysOf(f._formdata) \subseteq KeysOf(g._data) THEN "hit"
                ELSE "miss"]

(***************************************************************************)
(* The callers of the converter: model_form calls on one call site, and    *)
(* the rendering of a generated choice field.                              *)
(***************************************************************************)
\* before model_form is called and before a choice field is rendered
NoCall == [allow_pk |-> FALSE, only |-> None, exclude |-> None]
NoShown == [form |-> 0, field |-> "", data |-> None, allow_blank |-> FALSE, triples |-> <<>>]

\* before a form instance is built from submitted data
NoBound ==
    [form |-> 0, field |-> "", raw |-> None, data |-> None, errors |-> <<>>, valid |-> FALSE]

\* the value every attribute of the target object holds before populate_obj
Previous == PyInt("1")

InitConv ==
    /\ \E site \in Sites :
        /\ schema = site.schema
        /\ field_args = site.field_args
        /\ converter = site.converter
        /\ heap = site.heap
    /\ forms = <<>>
    /\ call = NoCall
    /\ lists0 = heap
    /\ shown = NoShown
    /\ store = [id \in Ids |-> "in"]
    /\ fld = NewQueryField("select", FALSE)
    /\ hist = NewHist
    /\ bound = NoBound
    /\ obj = [n \in {schema.fields[i].name : i \in 1..Len(schema.fields)} |-> Previous]

\* Form = model_form(model, allow_pk=..., only=..., exclude=..., field_args=...,
\* converter=...): a form class, or the exception a conversion raised.
ModelForm(allow_pk, only, exclude) ==
    /\ Len(forms) < MaxForms
    /\ \E r \in {model_fields(schema, allow_pk, only, exclude, field_args, converter, heap)} :
           /\ heap' = r.heap
           /\ call' = [allow_pk |-> allow_pk, only |-> only, exclude |-> exclude]
           /\ forms' = Append(forms,
                  [ok |-> r.ok,
                   name |-> IF r.ok THEN schema.name \o "Form" ELSE "",
                   fields |-> IF r.ok THEN r.info ELSE <<>>,
                   exc |-> r.exc, about |-> r.about, field |-> r.field])
    /\ shown' = NoShown
    /\ bound' = NoBound
    /\ UNCHANGED <<schema, field_args, converter, lists0, queryVars, obj>>

\* the attribute values of the objects a form is bound to
ObjValues == {None, PyInt("1"), PyStr("2"), PyStr("m")}

\* form = Form(obj=obj); list(form.<field>.iter_choices()) for a choice field
\* of the most recently generated form class (rendered once per class)
IterChoices(k, value) ==
    /\ Len(forms) > 0
    /\ forms[Len(forms)].ok
    /\ shown = NoShown
    /\ k \in 1..Len(forms[Len(forms)].fields)
    /\ forms[Len(forms)].fields[k].cls = "SelectChoicesField"
    /\ LET unbound == forms[Len(forms)].fields[k]
           f == process_data(SelectChoicesField(unbound.kwargs), value)
       IN  shown' = [form |-> Len(forms), field |-> unbound.name, data |-> f.data,
                     allow_blank |-> f.allow_blank, triples |-> iter_choices(f)]
    /\ UNCHANGED <<schema, field_args, converter, heap, forms, call, lists0, queryVars,
                   bound, obj>>

\* the strings a request carries for a field
RawPosts == {PyStr(""), PyStr("1"), PyStr("3"), PyStr("m"), PyStr("__None")}

\* form = Form(FakePost({name: raw})); form.validate(), for a field of the most
\* recently generated form class that carries no validator or filter of the
\* caller's (one submission per class)
Post(k, raw) ==
    /\ Len(forms) > 0
    /\ forms[Len(forms)].ok
    /\ bound = NoBound
    /\ k \in 1..Len(forms[Len(forms)].fields)
    /\ LET info == forms[Len(forms)].fields[k]
       IN  /\ info.cls \in Postable
           /\ \A i \in 1..Len(heap[info.kwargs.validators]) :
                  heap[info.kwargs.validators][i] \in {"Optional", "Required"}
           /\ \A i \in 1..Len(heap[info.kwargs.filters]) :
                  heap[info.kwargs.filters][i] = "handle_null_filter"
           /\ \E r \in {BoundField(heap, info, raw)} :
                  bound' = [form |-> Len(forms), field |-> r.field, raw |-> r.raw,
                            data |-> r.data, errors |-> r.errors, valid |-> r.valid]
    /\ UNCHANGED <<schema, field_args, converter, heap, forms, call, lists0, shown,
                   queryVars, obj>>

\* form.populate_obj(obj) seen from the submitted field: setattr(obj, name, field.data)
PopulateBound ==
    /\ bound # NoBound
    /\ obj' = [obj EXCEPT ![bound.field] = bound.data]
    /\ UNCHANGED <<schema, field_args, converter, heap, forms, call, lists0, shown,
                   queryVars, bound>>

NextConv ==
    \/ \E allow_pk \in BOOLEAN :
          \E oe \in OnlyExclude(schema) :
              ModelForm(allow_pk, oe[1], oe[2])
    \/ \E k \in 1..Len(schema.fields) : \E value \in ObjValues : IterChoices(k, value)

SpecConv == InitConv /\ [][NextConv]_vars

\* generated form classes put to use: instances built from submitted data
NextForm ==
    \/ \E allow_pk \in BOOLEAN : ModelForm(allow_pk, None, None)
    \/ \E k \in 1..Len(schema.fields) : \E raw \in RawPosts : Post(k, raw)
    \/ PopulateBound

SpecForm == InitConv /\ [][NextForm]_vars

(***************************************************************************)
(* The callers of a query-backed field.                                    *)
(***************************************************************************)
InitQuery ==
    /\ schema = Blog
    /\ field_args = EmptyDict
    /\ converter = DefaultConverter
    /\ heap = <<>>
    /\ forms = <<>>
    /\ call = NoCall
    /\ lists0 = <<>>
    /\ shown = NoShown
    /\ store = [id \in Ids |-> "in"]
    /\ \E kind \in {"select", "multi", "hidden"} :
          \E allow_blank \in BOOLEAN : fld = NewQueryField(kind, allow_blank)
    /\ hist = NewHist
    /\ bound = NoBound
    /\ obj = [n \in {"blog", "title"} |-> Previous]

\* the raw strings a request can carry for the field
RawValues == {BlankToken, PyStr("")} \cup {PyStr(id) : id \in Ids \cup {ToString(BadId)}}

\* the sub-lists of `all` chosen by the positions in `chosen`, in list order
RECURSIVE Pick(_, _, _)
Pick(all, chosen, i) ==
    IF i > Len(all) THEN <<>>
    ELSE (IF i \in chosen THEN <<all[i]>> ELSE <<>>) \o Pick(all, chosen, i + 1)

\* the identifier lists a multiple select submits: up to MaxSubmit distinct
\* identifiers (the query `primary_key << pk_list` ignores their order), one
\* list that repeats an identifier, and one that int() rejects
SubmittedLists ==
    LET all == [i \in 1..MaxRows + 1 |->
                   IF i <= MaxRows THEN PyStr(RowIds[i]) ELSE PyStr(ToString(BadId))]
    IN  {Pick(all, chosen, 1) :
            chosen \in {c \in SUBSET (1..Len(all)) : Cardinality(c) \in 1..MaxSubmit}}
        \cup {<<all[1], all[1]>>, <<BlankToken>>, <<>>}

ValueLists(kind) ==
    IF kind = "multi" THEN SubmittedLists
    ELSE {<<>>} \cup {<<v>> : v \in RawValues}

\* what a caller may assign to data (binding an object)
Assignable(kind) ==
    IF kind = "multi"
    THEN {None, PyList(<<>>), PyList([i \in 1..MaxRows |-> Instance(RowIds[i])])}
         \cup {PyList(<<Instance(id)>>) : id \in Ids}
    ELSE {None} \cup {Instance(id) : id \in Ids}

\* field.process_formdata(valuelist)
Submit(valuelist) ==
    /\ valuelist \in ValueLists(fld.kind)
    /\ \E r \in {process_formdata(fld, valuelist)} :
          /\ fld' = r.f
          /\ hist' = IF Len(valuelist) = 0 THEN hist
                     ELSE [NewHist EXCEPT
                             !.submitted = r.f._formdata,
                             !.origin = IF r.f._formdata # None THEN "pending"
                                        ELSE IF valuelist[1] = BlankToken /\ r.ok THEN "blank"
                                        ELSE "empty"]
    /\ UNCHANGED <<convVars, store, obj>>

\* value = field.data
ReadData ==
    /\ fld' = _get_data(fld, store)
    /\ hist' = Resolved(hist, fld, fld')
    /\ UNCHANGED <<convVars, store, obj>>

\* field.data = value
Assign(value) ==
    /\ value \in Assignable(fld.kind)
    /\ fld' = _set_data(fld, value)
    /\ hist' = [NewHist EXCEPT !.origin = "assigned",
                               !.assigned = value,
                               !.dropped = (fld._formdata # None)]
    /\ UNCHANGED <<convVars, store, obj>>

\* field.pre_validate(form)
Validate ==
    /\ \E r \in {pre_validate(fld, store)} :
          /\ fld' = r.f
          /\ hist' = [Resolved(hist, fld, r.f) EXCEPT
                        !.validated = r.outcome,
                        !.vnone = (DataOf(_get_data(fld, store)) = None),
                        !.vlive = Matched(store)]
    /\ UNCHANGED <<convVars, store, obj>>

\* the values a template passes to field(value=...)
Renderable(kind) ==
    IF kind = "multi"
    THEN {PyList(<<PyInt(RowIds[1])>>), PyList(<<PyInt(ToString(BadId))>>)}
    ELSE {PyStr(RowIds[1]), PyStr(ToString(BadId))}

\* field(value=value)
Render(value) ==
    /\ value \in Renderable(fld.kind)
    /\ fld' = __call__(fld, store, value)
    /\ hist' = [NewHist EXCEPT !.origin = "rendered"]
    /\ UNCHANGED <<convVars, store, obj>>

\* list(field.iter_choices()) on a select or multiple field
IterQuery ==
    /\ fld.kind # "hidden"
    /\ \E r \in {iter_choices_query(fld, store)} :
          /\ fld' = r.f
          /\ hist' = [Resolved(hist, fld, r.f) EXCEPT
                        !.listed = IF hist.validated # "no" THEN "after validation"
                                   ELSE "before validation"]
    /\ UNCHANGED <<convVars, store, obj>>

\* Faulty variant of PopulateObj: the target object is saved as well.
PopulateObj_Saving ==
    /\ fld' = _get_data(fld, store)
    /\ hist' = Resolved(hist, fld, fld')
    /\ obj' = [obj EXCEPT !.blog = DataOf(fld')]
    /\ store' = [id \in Ids |-> "in"]
    /\ UNCHANGED convVars

\* form.populate_obj(obj) on the form holding the field as `blog`:
\* setattr(obj, 'blog', field.data)
PopulateObj ==
    /\ fld' = _get_data(fld, store)
    /\ hist' = Resolved(hist, fld, fld')
    /\ obj' = [obj EXCEPT !.blog = DataOf(fld')]
    /\ UNCHANGED <<convVars, store>>

\* a row is deleted, or saved so that the field's query does / does not match it
DeleteRow(id) ==
    /\ store[id] # "absent"
    /\ store' = [store EXCEPT ![id] = "absent"]
    /\ UNCHANGED <<convVars, fld, hist, obj>>

SaveRow(id, state) ==
    /\ store[id] # state
    /\ store' = [store EXCEPT ![id] = state]
    /\ UNCHANGED <<convVars, fld, hist, obj>>

NextQuery ==
    \/ \E valuelist \in ValueLists(fld.kind) : Submit(valuelist)
    \/ ReadData
    \/ \E value \in Assignable(fld.kind) : Assign(value)
    \/ Validate
    \/ \E value \in Renderable(fld.kind) : Render(value)
    \/ PopulateObj
    \/ \E id \in Ids : DeleteRow(id)
    \/ \E id \in Ids : \E state \in {"in", "out"} : SaveRow(id, state)

SpecQuery == InitQuery /\ [][NextQuery]_vars

\* a template that lists the choices of the field, between the other
\* operations on it
NextList ==
    \/ \E valuelist \in ValueLists(fld.kind) : Submit(valuelist)
    \/ ReadData
    \/ \E value \in Assignable(fld.kind) : Assign(value)
    \/ Validate
    \/ \E value \in Renderable(fld.kind) : Render(value)
    \/ IterQuery
    \/ \E id \in Ids : DeleteRow(id)
    \/ \E id \in Ids : \E state \in {"in", "out"} : SaveRow(id, state)

SpecList == InitQuery /\ [][NextList]_vars

(***************************************************************************)
(* Vocabulary of the properties of the converter.                          *)
(***************************************************************************)
Last == forms[Len(forms)]
Names(cols) == [i \in 1..Len(cols) |-> cols[i].name]
Descriptor(name) == CHOOSE c \in {schema.fields[i] : i \in 1..Len(schema.fields)} : c.name = name
Override(name) == Get(field_args, name, EmptyDict)
AutoAdded == {"Optional", "Required"}

\* every field of every form class generated so far, as <<form, position>>
Generated == {p \in (1..Len(forms)) \X (1..Len(schema.fields)) :
                forms[p[1]].ok /\ p[2] <= Len(forms[p[1]].fields)}
FieldAt(p) == forms[p[1]].fields[p[2]]

\* C1: every generated field whose override supplies a validators list carries
\* exactly the supplied validators followed by at most one auto-added validator
\* (however many form classes were generated from the same field_args), and its
\* validator list is shared with no other generated field and not with the
\* caller's list.
C1_NoValidatorAliasing ==
    \A p \in Generated :
        Has(Override(FieldAt(p).name), "validators") =>
            LET supplied == lists0[Override(FieldAt(p).name).validators]
                got == heap[FieldAt(p).kwargs.validators]
            IN  /\ \/ got = supplied
                   \/ \E v \in AutoAdded : got = Append(supplied, v)
                /\ FieldAt(p).kwargs.validators # Override(FieldAt(p).name).validators
                /\ \A q \in Generated :
                      q # p => FieldAt(q).kwargs.validators # FieldAt(p).kwargs.validators

\* C2: model_form is a pure factory: the same field of two form classes generated
\* from the same model and field_args has equal validator lists and equal filter
\* lists, and the lists inside the caller's field_args are left as they were.
C2_PureFactory ==
    /\ \A p \in Generated : \A q \in Generated :
          FieldAt(p).name = FieldAt(q).name =>
              /\ heap[FieldAt(p).kwargs.validators] = heap[FieldAt(q).kwargs.validators]
              /\ (Has(FieldAt(p).kwargs, "filters") /\ Has(FieldAt(q).kwargs, "filters")) =>
                     heap[FieldAt(p).kwargs.filters] = heap[FieldAt(q).kwargs.filters]
    /\ \A r \in 1..Len(lists0) : heap[r] = lists0[r]

\* C3: with `only` supplied the result holds exactly the non-dropped descriptors
\* named in it (exclude is ignored); with only `exclude` supplied exactly the
\* non-dropped descriptors not named in it; in schema order either way.
C3_OnlyExclude ==
    (Len(forms) > 0 /\ Last.ok) =>
        LET kept == DropPk(sorted_fields(schema), call.allow_pk)
        IN  Names(Last.fields) =
                Names(IF call.only # None THEN KeepCols(kept, call.only, TRUE)
                      ELSE IF call.exclude # None THEN KeepCols(kept, call.exclude, FALSE)
                      ELSE kept)

\* C4: with allow_pk false no field is produced for the primary key and, absent
\* only / exclude, every other column gets a field; with allow_pk true the primary
\* key is converted like any other column.  The dropped column is always the
\* primary key.
C4_DropsPrimaryKey ==
    (Len(forms) > 0 /\ Last.ok) =>
        LET cols == {schema.fields[i] : i \in 1..Len(schema.fields)}
            made == {Last.fields[i].name : i \in 1..Len(Last.fields)}
        IN  /\ ~call.allow_pk => \A c \in cols : c.primary_key => c.name \notin made
            /\ (call.only = None /\ call.exclude = None) =>
                  \A c \in cols : (call.allow_pk \/ ~c.primary_key) => c.name \in made

\* The column is converted by the defaults registry, it has choices (declared or
\* supplied by the override), and no coercion function is available for it.
ChoicesWithoutCoercion(col) ==
    /\ col.name \notin DOMAIN converter.overrides
    /\ ~col.has_wtf_field
    /\ \A i \in 1..Len(converter.converters) : ~IsInstance(col.type, converter.converters[i][1])
    /\ FirstMatch(defaults, col.type) # 0
    /\ HasChoices(col.choices) \/ Has(Override(col.name), "choices")
    /\ ~Has(Override(col.name), "coerce")
    /\ defaults[FirstMatch(defaults, col.type)][1] \notin DOMAIN converter.coerce_settings

\* C5 as claimed: a column with choices and no coercion function makes convert
\* fail, so no field is ever produced for such a column.
C5_FailsWithoutCoercion ==
    \A p \in Generated : ~ChoicesWithoutCoercion(Descriptor(FieldAt(p).name))

\* C5 as amended: for a column with choices and no coercion function convert does
\* not fail; it produces the default widget registered for the matched type,
\* built without choices and without a coercion function.
C5_FallsBackToDefaultWidget ==
    /\ \A p \in Generated :
          ChoicesWithoutCoercion(Descriptor(FieldAt(p).name)) =>
              /\ FieldAt(p).cls =
                    defaults[FirstMatch(defaults, Descriptor(FieldAt(p).name).type)][2]
              /\ ~Has(FieldAt(p).kwargs, "choices")
              /\ ~Has(FieldAt(p).kwargs, "coerce")
    /\ (Len(forms) > 0 /\ ~Last.ok) => ~ChoicesWithoutCoercion(Descriptor(Last.field))

C5_Witness ==
    \E p \in Generated :
        /\ ChoicesWithoutCoercion(Descriptor(FieldAt(p).name))
        /\ FieldAt(p).name = "true_or_false"
        /\ FieldAt(p).cls = "BooleanField"

\* C6: iter_choices yields one (value, label, selected) triple per declared choice
\* in declaration order, preceded by the blank triple ('__None', blank_text,
\* data is None) exactly when allow_blank is true; for a generated choice field
\* allow_blank is the override's allow_blank if supplied, else the column's null.
C6_IterChoices ==
    shown.form # 0 =>
        LET col == Descriptor(shown.field)
            declared == IF Has(Override(shown.field), "choices")
                        THEN Override(shown.field).choices ELSE col.choices
            blank == IF Has(Override(shown.field), "allow_blank")
                     THEN Override(shown.field).allow_blank ELSE col.null
            off == IF blank THEN 1 ELSE 0
        IN  /\ shown.allow_blank = blank
            /\ Len(shown.triples) = Len(declared) + off
            /\ \A i \in 1..Len(declared) :
                  /\ shown.triples[i + off][1] = declared[i][1]
                  /\ shown.triples[i + off][2] = declared[i][2]
            /\ blank => shown.triples[1] =
                  <<PyStr("__None"), "----------------", shown.data = None>>
            /\ \A i \in 1..Len(shown.triples) :
                  shown.triples[i][1] = PyStr("__None") => (blank /\ i = 1)

C6_Witness ==
    /\ shown.form # 0
    /\ shown.allow_blank
    /\ Len(shown.triples) = 3
    /\ shown.triples[1][3] = FALSE
    /\ shown.triples[3][3] = TRUE

\* No rule of the converter matches the column.
Unconvertible(col) ==
    /\ col.name \notin DOMAIN converter.overrides
    /\ ~col.has_wtf_field
    /\ \A i \in 1..Len(converter.converters) : ~IsInstance(col.type, converter.converters[i][1])
    /\ \A i \in 1..Len(defaults) : ~IsInstance(col.type, defaults[i][1])

\* C7: if a surviving column matches no rule, model_form returns no form class and
\* no field mapping, wherever the column stands in schema order, and the
\* unsupported-field-type error names the column's type; a column removed by
\* only / exclude or by the primary-key drop never triggers the error.
C7_UnsupportedFailsFast ==
    Len(forms) > 0 =>
        LET surviving == Surviving(schema, call.allow_pk, call.only, call.exclude)
            bad == {i \in 1..Len(surviving) : Unconvertible(surviving[i])}
        IN  /\ bad # {} =>
                  /\ ~Last.ok
                  /\ Last.fields = <<>>
                  /\ Last.name = ""
                  /\ Last.exc = "AttributeError" =>
                        \E i \in bad : /\ \A j \in bad : i <= j
                                       /\ Last.about = surviving[i].type
                                       /\ Last.field = surviving[i].name
            /\ bad = {} => Last.exc # "AttributeError"

C7_Witness ==
    /\ Len(forms) > 0
    /\ ~Last.ok
    /\ Last.exc = "AttributeError"
    /\ Last.about = "CustomField"
    /\ call.allow_pk
    /\ call.only = None /\ call.exclude = None

(***************************************************************************)
(* Properties of the query-backed fields.                                  *)
(***************************************************************************)
\* C8: for a SelectQueryField with any allow_blank, once a submitted identifier
\* that is not the blank sentinel was looked up and matched no row of the query,
\* validation of the field fails: it is never accepted as if nothing had been
\* selected.
C8_UnknownIdentifierRejected ==
    (fld.kind = "select" /\ hist.origin = "miss" /\ hist.validated # "no") =>
        hist.validated # "ok"

\* C9 as claimed: for a SelectMultipleQueryField with submitted identifiers S,
\* pre_validate succeeds only if the number of rows of the live query whose key
\* is in S equals the number of submitted identifiers; an identifier of S that
\* matches no row fails validation.
C9_CountsSubmittedIdentifiers ==
    (fld.kind = "multi" /\ hist.origin \in {"hit", "miss"} /\ hist.validated = "ok") =>
        Cardinality(hist.vlive \cap KeysOf(hist.submitted)) = Len(hist.submitted[2])

\* C9 as amended: pre_validate counts the live query against the rows the
\* submitted identifiers resolved to, not against the identifiers: it fails, with
\* 'Not a valid choice', exactly when a row that was resolved is no longer matched
\* by the live query; identifiers that matched no row were dropped by the lookup
\* and do not fail validation.
C9_CountsResolvedRows ==
    (fld.kind = "multi" /\ hist.origin \in {"hit", "miss"} /\ hist.validated # "no") =>
        /\ hist.validated \in {"ok", "Not a valid choice"}
        /\ hist.validated = "ok" <=> hist.resolved \subseteq hist.vlive
        /\ hist.resolved \subseteq KeysOf(hist.submitted)

C9_Witness ==
    /\ fld.kind = "multi"
    /\ hist.origin = "miss"
    /\ hist.submitted = PyList(<<PyInt(RowIds[1]), PyInt(ToString(BadId))>>)
    /\ hist.resolved = {RowIds[1]}
    /\ hist.vlive = Ids
    /\ hist.validated = "ok"

\* C10 as claimed: for a SelectQueryField and for a HiddenQueryField with
\* allow_blank false, whenever data is None at validation time the validation
\* fails with 'Selection cannot be blank'.
C10_BlankRejected ==
    (fld.kind \in {"select", "hidden"} /\ ~fld.allow_blank
        /\ hist.validated # "no" /\ hist.vnone) =>
        hist.validated = "Selection cannot be blank"

\* C10 as amended: this holds for a SelectQueryField; a HiddenQueryField has no
\* pre_validate of its own, so its validation succeeds whatever its data is.
C10_BlankRejectedBySelectOnly ==
    /\ (fld.kind = "select" /\ ~fld.allow_blank /\ hist.validated # "no" /\ hist.vnone) =>
          hist.validated = "Selection cannot be blank"
    /\ (fld.kind = "hidden" /\ hist.validated # "no") => hist.validated = "ok"

C10_Witness ==
    /\ fld.kind = "select"
    /\ ~fld.allow_blank
    /\ hist.origin = "miss"
    /\ hist.vnone
    /\ hist.validated = "Selection cannot be blank"

\* C11: no operation of the form layer (building a form from submitted data,
\* binding an object, reading data, rendering, validating, populate_obj) inserts,
\* updates or deletes a stored row: the stored rows change only in a step in
\* which the caller saves or deletes a model instance; and the target object
\* changes only in populate_obj, and only in the attribute named like the
\* form's field.
C11_NoWriteWithoutSave ==
    [][ /\ store' # store =>
              \E id \in Ids : DeleteRow(id) \/ \E state \in {"in", "out"} : SaveRow(id, state)
        /\ \A a \in DOMAIN obj : obj'[a] # obj[a] => (a = "blog" /\ PopulateObj) ]_vars

C11_Witness ==
    /\ hist.origin = "hit"
    /\ hist.validated = "ok"
    /\ obj.blog = Instance(RowIds[1])
    /\ obj.title = Previous
    /\ store = [id \in Ids |-> "in"]

\* the list the caller supplied under key k for the column, as the caller built it
Supplied(name, k) ==
    IF Has(Override(name), k) THEN lists0[Override(name)[k]] ELSE <<>>

\* list `base` followed by n copies of x
Repeated(base, x, n) == base \o [i \in 1..n |-> x]

\* C14: for every descriptor without fixed choices, each convert call adds
\* exactly one of the following, chosen in this order: for a nullable
\* descriptor the empty-string-to-None filter and Optional; else, for a non-null
\* default, Optional; else, for a type in `required`, Required; else nothing.
\* So a generated field's validators are the supplied ones followed by that one
\* validator (once per conversion that appended to the same list), never both
\* Optional and Required, and its filters are the supplied ones followed by the
\* filter only for a nullable descriptor.
C14_OneAutoValidator ==
    \A p \in Generated :
        LET col == Descriptor(FieldAt(p).name)
            kw == FieldAt(p).kwargs
            auto == IF col.null \/ col.default # None THEN "Optional"
                    ELSE IF \E r \in required : IsInstance(col.type, r) THEN "Required"
                    ELSE ""
        IN  ~HasChoices(col.choices) =>
              /\ IF auto = ""
                 THEN heap[kw.validators] = Supplied(col.name, "validators")
                 ELSE \E n \in 1..Len(forms) :
                        heap[kw.validators] = Repeated(Supplied(col.name, "validators"), auto, n)
              /\ Has(kw, "filters") =>
                    IF col.null
                    THEN \E n \in 1..Len(forms) :
                           heap[kw.filters] =
                               Repeated(Supplied(col.name, "filters"), "handle_null_filter", n)
                    ELSE heap[kw.filters] = Supplied(col.name, "filters")

\* a form with a field for a column that has a non-null default and a type in
\* `required`, and one for a nullable column
C14_Witness ==
    /\ schema.name = "Entry"
    /\ Len(forms) > 0
    /\ Last.ok
    /\ \E i \in 1..Len(Last.fields) :
          /\ Last.fields[i].name = "pub_date"
          /\ heap[Last.fields[i].kwargs.validators] = <<"Optional">>
    /\ \E i \in 1..Len(Last.fields) :
          /\ Last.fields[i].name = "title"
          /\ heap[Last.fields[i].kwargs.validators] = <<"Required">>

\* C15: for a descriptor with a fixed choice set the auto-added validator is
\* still decided by nullability: the generated field of a nullable descriptor
\* with choices carries Optional and never Required, also when the
\* descriptor's type is in `required`.
C15_NullableChoicesOptional ==
    \A p \in Generated :
        LET col == Descriptor(FieldAt(p).name)
            vs == heap[FieldAt(p).kwargs.validators]
        IN  (HasChoices(col.choices) /\ col.null) =>
              /\ \E i \in DOMAIN vs : vs[i] = "Optional"
              /\ \A i \in DOMAIN vs : vs[i] # "Required"

\* a column converted through the defaults registry that has choices (declared
\* or supplied by the override) and whose override supplies `coerce`
OverrideCoerced(col) ==
    /\ col.name \notin DOMAIN converter.overrides
    /\ ~col.has_wtf_field
    /\ \A i \in 1..Len(converter.converters) : ~IsInstance(col.type, converter.converters[i][1])
    /\ FirstMatch(defaults, col.type) # 0
    /\ HasChoices(col.choices) \/ Has(Override(col.name), "choices")
    /\ Has(Override(col.name), "coerce")

\* C16: when the override supplies `coerce` for a column with choices, convert
\* produces a SelectChoicesField that uses the override's function, whatever the
\* column's registered type, also one without a coercion default; no conversion
\* fails on such a column.
C16_OverrideCoerceUsed ==
    /\ \A p \in Generated :
          OverrideCoerced(Descriptor(FieldAt(p).name)) =>
              /\ FieldAt(p).cls = "SelectChoicesField"
              /\ Has(FieldAt(p).kwargs, "coerce")
              /\ FieldAt(p).kwargs.coerce = Override(FieldAt(p).name).coerce
    /\ \A k \in 1..Len(forms) :
          ~forms[k].ok => ~OverrideCoerced(Descriptor(forms[k].field))

\* the registered types the column type is an instance of
RegisteredFor(type) ==
    {i \in 1..Len(defaults) : IsInstance(type, defaults[i][1])}

\* the entry of the most specific registered type: the one that is an instance
\* of every other registered type the column type derives from
MostSpecific(type) ==
    CHOOSE i \in RegisteredFor(type) :
        \A j \in RegisteredFor(type) : IsInstance(defaults[i][1], defaults[j][1])

\* a column converted by the plain default-widget rule
PlainDefault(col) ==
    /\ col.name \notin DOMAIN converter.overrides
    /\ ~col.has_wtf_field
    /\ \A i \in 1..Len(converter.converters) : ~IsInstance(col.type, converter.converters[i][1])
    /\ RegisteredFor(col.type) # {}
    /\ ~HasChoices(col.choices)
    /\ ~Has(Override(col.name), "choices")

\* C17: the defaults registry checks every registered subtype before the
\* registered types it derives from, so that every column converted by the
\* default rule gets the widget registered for its most specific registered
\* type (AutoField, BigIntegerField, DoubleField, IPField, SmallIntegerField
\* and TimestampField columns included).
C17_MostSpecificWidget ==
    \A p \in Generated :
        PlainDefault(Descriptor(FieldAt(p).name)) =>
            FieldAt(p).cls = defaults[MostSpecific(Descriptor(FieldAt(p).name).type)][2]

\* a column converted by the converter's own foreign-key handler
ByForeignKeyHandler(col) ==
    /\ col.name \notin DOMAIN converter.overrides
    /\ ~col.has_wtf_field
    /\ FirstMatch(converter.converters, col.type) # 0
    /\ converter.converters[FirstMatch(converter.converters, col.type)][2] = "handle_foreign_key"

\* the allow_blank a query-backed field ends up with: the keyword when passed,
\* else the constructor's default
AllowBlankOf(info) == Get(info.kwargs, "allow_blank", FALSE)

BoundInfo ==
    CHOOSE info \in {forms[bound.form].fields[i] : i \in 1..Len(forms[bound.form].fields)} :
        info.name = bound.field

\* a nullable column without fixed choices, declared or supplied by the override
NullableNoChoices(col) ==
    col.null /\ ~HasChoices(col.choices) /\ ~Has(Override(col.name), "choices")

NullableCoercedChoices(col) ==
    /\ col.null
    /\ HasChoices(col.choices)
    /\ FirstMatch(defaults, col.type) # 0
    /\ defaults[FirstMatch(defaults, col.type)][1] \in DOMAIN converter.coerce_settings
    /\ ~Has(field_args, col.name)

\* the submitted string coerced by the registered coercion of the column
CoercedRaw(col) ==
    Coerce(converter.coerce_settings[defaults[FirstMatch(defaults, col.type)][1]], bound.raw)

\* C13: for a field generated from a nullable column with fixed choices and a
\* registered coercion: the submitted empty string validates with data None; a
\* submitted value that coerces into the choice set validates with the coerced
\* value as data; a submitted value outside the choice set fails validation.
C13_NullableChoiceField ==
    (bound # NoBound /\ NullableCoercedChoices(Descriptor(bound.field))) =>
        LET col == Descriptor(bound.field)
            inset == \E i \in 1..Len(col.choices) : PyEq(col.choices[i][1], CoercedRaw(col))
        IN  /\ bound.raw = PyStr("") => (bound.valid /\ bound.data = None)
            /\ (bound.raw # PyStr("") /\ inset) => (bound.valid /\ bound.data = CoercedRaw(col))
            /\ (bound.raw \notin {PyStr(""), PyStr("__None")} /\ ~inset) => ~bound.valid

(***************************************************************************)
(* Properties of the deferred lookup of query-backed fields.               *)
(***************************************************************************)
\* the rows the pending identifier (or identifier list) of f stands for in st
Lookup(f, st) ==
    IF f.kind = "multi" THEN get_model_list(st, f._formdata) ELSE get_model(st, f._formdata)

\* a step that reads field.data
ReadsData ==
    \/ ReadData
    \/ PopulateObj
    \/ (fld.kind # "hidden" /\ Validate)

\* a step that does not bind the field anew: any step other than a
\* process_formdata with a non-empty value list, an assignment to data and a
\* render with an explicit value
KeepsBinding ==
    \/ ReadsData
    \/ Validate
    \/ Submit(<<>>)
    \/ \E id \in Ids : DeleteRow(id)
    \/ \E id \in Ids : \E state \in {"in", "out"} : SaveRow(id, state)

\* C19: for every query-backed field, the first read of data after
\* process_formdata stored an identifier looks it up in the rows as they are
\* at that moment, stores the result and clears the pending identifier; from
\* then on, until a new process_formdata with a non-empty value list, an
\* assignment or a render with a value, no read, validation or change of the
\* rows changes the field: later reads return the stored result and look
\* nothing up.
C19_DeferredLookup ==
    [][ /\ (fld._formdata # None /\ ReadsData) =>
              /\ fld'._formdata = None
              /\ fld'._data = Lookup(fld, store)
        /\ (fld._formdata = None /\ fld' # fld) => ~KeepsBinding ]_vars

\* a select field whose identifier was found by the first read, and whose later
\* validation, after the row was removed, still read that row
C19_Witness ==
    /\ fld.kind = "select"
    /\ fld._formdata = None
    /\ fld._data = Instance(RowIds[1])
    /\ hist.origin = "hit"
    /\ hist.validated = "Not a valid choice"
    /\ RowIds[1] \notin hist.vlive
    /\ RowIds[1] \notin Matched(store)

\* C20 as claimed: an assignment to data made while an identifier is pending
\* discards the identifier; from then on a read of data returns exactly the
\* assigned value and nothing is looked up.  A pending identifier never
\* coexists with a non-empty resolved value, and '__None' submitted to a
\* SelectQueryField gives data None without a lookup.
C20_AssignedValueReadBack ==
    /\ (hist.origin = "assigned" /\ hist.dropped) =>
          /\ fld._formdata = None
          /\ hist.resolved = {}
          /\ DataOf(_get_data(fld, store)) = hist.assigned
    /\ fld._formdata # None => fld._data \in {None, PyList(<<>>)}
    /\ (fld.kind = "select" /\ hist.origin = "blank") =>
          /\ fld._formdata = None
          /\ hist.resolved = {}
          /\ DataOf(_get_data(fld, store)) = None

\* C20 as amended: the same, except that a SelectMultipleQueryField reads an
\* assigned None back as the empty list.
C20_AssignedValueReadBackOrEmptyList ==
    /\ (hist.origin = "assigned" /\ hist.dropped) =>
          /\ fld._formdata = None
          /\ hist.resolved = {}
          /\ DataOf(_get_data(fld, store)) =
                IF fld.kind = "multi" /\ hist.assigned = None THEN PyList(<<>>)
                ELSE hist.assigned
    /\ fld._formdata # None => fld._data \in {None, PyList(<<>>)}
    /\ (fld.kind = "select" /\ hist.origin = "blank") =>
          /\ fld._formdata = None
          /\ hist.resolved = {}
          /\ DataOf(_get_data(fld, store)) = None

\* a row was assigned while an identifier was pending, the row was deleted, and
\* populate_obj then read the assigned row back
C20_Witness ==
    /\ hist.origin = "assigned"
    /\ hist.dropped
    /\ hist.assigned = Instance(RowIds[1])
    /\ obj.blog = Instance(RowIds[1])
    /\ store[RowIds[1]] = "absent"

(***************************************************************************)
(* Properties of validation against rows that changed after the lookup.    *)
(***************************************************************************)
\* the exception class behind an outcome of pre_validate
ErrorClass(outcome) == IF outcome = "ok" THEN "none" ELSE "ValidationError"

\* a select or multiple field was validated after a row its submitted
\* identifier had resolved to was deleted or left the query
StaleAtValidation ==
    /\ fld.kind \in {"select", "multi"}
    /\ hist.origin \in {"hit", "miss"}
    /\ hist.validated # "no"
    /\ hist.resolved # {}
    /\ ~(hist.resolved \subseteq hist.vlive)

\* a select or multiple field was validated after a submitted identifier had
\* matched no row on the read
UnknownAtValidation ==
    /\ fld.kind \in {"select", "multi"}
    /\ hist.origin = "miss"
    /\ hist.validated # "no"

C22_QueryNeverMutated ==
    /\ fld.query = OriginalQuery
    /\ fld.kind # "hidden" =>
          LET r == iter_choices_query(fld, store)
              off == IF fld.allow_blank THEN 1 ELSE 0
              data == DataOf(r.f)
          IN  /\ r.f.query = OriginalQuery
              /\ Len(r.triples) = off + Cardinality(Matched(store))
              /\ \A id \in Matched(store) :
                    \E i \in (off + 1)..Len(r.triples) :
                        /\ r.triples[i][1] = PyInt(id)
                        /\ r.triples[i][3] = (id \in KeysOf(data))
              /\ \A i, j \in (off + 1)..Len(r.triples) :
                    i < j => r.triples[i][1] # r.triples[j][1]
              /\ fld.allow_blank =>
                    r.triples[1] = <<BlankToken, "----------------", data = None>>
              /\ \A i \in 1..Len(r.triples) :
                    r.triples[i][1] = BlankToken => (fld.allow_blank /\ i = 1)

\* the choices of a select field that allows the blank choice were listed after
\* its submitted identifier was looked up and found, the row left the query and
\* the validation rejected it
C22_Witness ==
    /\ fld.kind = "select"
    /\ fld.allow_blank
    /\ hist.listed = "after validation"
    /\ hist.origin = "hit"
    /\ hist.resolved = {RowIds[1]}
    /\ hist.validated = "Not a valid choice"
    /\ store[RowIds[1]] = "out"

(***************************************************************************)
(* WPDateTimeField (fields.py): a date sub-field and a time sub-field in a *)
(* nested form.  A date is <<"date", text>>, a time <<"time", text>>, a    *)
(* date-time <<"datetime", <<date text, time text>>>>.                     *)
(***************************************************************************)
Dates == {<<"date", "2011-01-01">>, <<"date", "2011-02-01">>}
Midnight == <<"time", "00:00:00">>
Times == {Midnight, <<"time", "12:30:00">>, <<"time", "23:59:59">>}

\* datetime.datetime.combine, .date() and .time()
combine(d, t) == <<"datetime", <<d[2], t[2]>>>>
DatePart(dt) == <<"date", dt[2][1]>>
TimePart(dt) == <<"time", dt[2][2]>>
DateTimes == {combine(d, t) : d \in Dates, t \in Times}

\* wtforms' _unset_value
Unset == <<"_unset_value", "">>

\* datetime.datetime.strptime(s, '%Y-%m-%d').date()
StrpDate(s) == IF <<"date", s>> \in Dates THEN <<"date", s>> ELSE ValueError

\* datetime.datetime.strptime(s, format).time() for WPTimeField.formats
StrpTime(s, format) ==
    IF format = "%H:%M:%S"
    THEN IF <<"time", s>> \in Times THEN <<"time", s>> ELSE ValueError
    ELSE IF <<"time", s \o ":00">> \in Times THEN <<"time", s \o ":00">> ELSE ValueError

\* WPTimeField.convert: the first format that parses, else None
TimeConvert(time_str) ==
    IF StrpTime(time_str, "%H:%M:%S") # ValueError THEN StrpTime(time_str, "%H:%M:%S")
    ELSE IF StrpTime(time_str, "%H:%M") # ValueError THEN StrpTime(time_str, "%H:%M")
    ELSE None

\* a sub-field after process(formdata, data): process_data stores the data,
\* process_formdata parses a non-empty value list and raises on failure
DateSubField(value, valuelist) ==
    IF Len(valuelist) = 0 THEN [data |-> value, errors |-> <<>>]
    ELSE IF StrpDate(valuelist[1]) = ValueError
         THEN [data |-> None, errors |-> <<"Not a valid date value">>]
         ELSE [data |-> StrpDate(valuelist[1]), errors |-> <<>>]

TimeSubField(value, valuelist) ==
    IF Len(valuelist) = 0 THEN [data |-> value, errors |-> <<>>]
    ELSE IF TimeConvert(valuelist[1]) = None
         THEN [data |-> None, errors |-> <<"Not a valid time value">>]
         ELSE [data |-> TimeConvert(valuelist[1]), errors |-> <<>>]

\* WPDateTimeField.__init__: the nested form is built by process
NewDateTimeField(default) ==
    [kind |-> "datetime", default |-> default,
     date |-> [data |-> None, errors |-> <<>>],
     time |-> [data |-> None, errors |-> <<>>]]

\* the value process binds: the data passed, else the default (called when it
\* is callable; `now` is what the call returns)
BoundValue(f, data, now) ==
    IF data # Unset THEN data
    ELSE IF f.default[1] = "function" THEN now
    ELSE f.default

\* form data that carries neither part (or no form data at all): the nested
\* form finds an empty value list for both sub-fields
NoParts == [date |-> <<>>, time |-> <<>>]

\* the value list the nested form finds for a sub-field
PartList(formdata, part) == formdata[part]

\* WPDateTimeField.process
process(f, formdata, data, now) ==
    LET value == BoundValue(f, data, now)
        kwargs == IF value # None /\ value # Unset
                  THEN [date |-> DatePart(value), time |-> TimePart(value)]
                  ELSE EmptyDict
    IN  [f EXCEPT
           !.date = DateSubField(Get(kwargs, "date", None), PartList(formdata, "date")),
           !.time = TimeSubField(Get(kwargs, "time", None), PartList(formdata, "time"))]

\* Faulty variant of DateTimeData: a value only when both parts are there.
DateTimeData_BothParts(f) ==
    IF f.date.data # None /\ f.time.data # None
    THEN combine(f.date.data, f.time.data)
    ELSE None

\* WPDateTimeField.data; `self.time.data or datetime.time(0, 0)` is midnight
\* for a missing time and for a midnight time alike
DateTimeData(f) ==
    LET date_data == f.date.data
        time_data == IF f.time.data = None \/ f.time.data = Midnight
                     THEN Midnight ELSE f.time.data
    IN  IF date_data # None THEN combine(date_data, time_data) ELSE None

(***************************************************************************)
(* The life of one WPDateTimeField: the form is built, with or without     *)
(* submitted parts and a bound value; data is read; populate_obj copies it.*)
(* `hist` records what the last process call was given and what was read.  *)
(***************************************************************************)
Unread == <<"unread", "">>
NoProcess == [processed |-> FALSE, formdata |-> NoParts, bound |-> None, read |-> Unread]

InitDateTime ==
    /\ schema = Entry
    /\ field_args = EmptyDict
    /\ converter = DefaultConverter
    /\ heap = <<>>
    /\ forms = <<>>
    /\ call = NoCall
    /\ lists0 = <<>>
    /\ shown = NoShown
    /\ store = [id \in Ids |-> "in"]
    /\ \E default \in {None, Now, combine(<<"date", "2011-01-01">>, Midnight)} :
          fld = NewDateTimeField(default)
    /\ hist = NoProcess
    /\ bound = NoBound
    /\ obj = [n \in {"pub_date"} |-> Previous]

\* what a request carries for a part: nothing, or one string
DateLists == {<<>>, <<"2011-01-01">>, <<"2011-02-01">>, <<"">>, <<"junk">>}
TimeLists == {<<>>, <<"00:00:00">>, <<"12:30:00">>, <<"12:30">>, <<"">>, <<"junk">>}
FormData == {[date |-> d, time |-> t] : d \in DateLists, t \in TimeLists}

\* form = Form(formdata, obj=obj): the field's process(formdata, data)
ProcessDateTime(formdata, data, now) ==
    /\ fld' = process(fld, formdata, data, now)
    /\ hist' = [processed |-> TRUE, formdata |-> formdata,
                bound |-> BoundValue(fld, data, now), read |-> Unread]
    /\ UNCHANGED <<convVars, store, obj>>

\* value = field.data
ReadDateTime ==
    /\ hist.processed
    /\ hist' = [hist EXCEPT !.read = DateTimeData(fld)]
    /\ UNCHANGED <<convVars, store, fld, obj>>

\* WPDateTimeField.populate_obj(obj, 'pub_date')
PopulateDateTime ==
    /\ hist.processed
    /\ obj' = [obj EXCEPT !.pub_date = DateTimeData(fld)]
    /\ UNCHANGED <<convVars, queryVars>>

NextDateTime ==
    \/ \E formdata \in FormData : \E data \in {Unset, None} \cup DateTimes :
          \E now \in {combine(<<"date", "2011-02-01">>, <<"time", "12:30:00">>)} :
              ProcessDateTime(formdata, data, now)
    \/ ReadDateTime
    \/ PopulateDateTime

SpecDateTime == InitDateTime /\ [][NextDateTime]_vars

(***************************************************************************)
(* Properties of WPDateTimeField.                                          *)
(***************************************************************************)
\* nothing was submitted for the date part and the time part
NoPartsSubmitted == hist.formdata = NoParts

\* C23: the data read from a WPDateTimeField is None exactly when the date
\* sub-field has no parsed value, and otherwise the date sub-field's value
\* combined with the time sub-field's value, midnight when that is missing: a
\* submitted date with a missing or unparsable time reads as that date at
\* midnight.  After the field was bound to a date-time with no parts
\* submitted, the sub-fields hold its date part and its time part and the data
\* read is that date-time, also when its time part is midnight.
C23_DateTimeData ==
    hist.read # Unread =>
       /\ hist.read = None <=> fld.date.data = None
       /\ fld.date.data # None =>
             /\ DatePart(hist.read) = fld.date.data
             /\ TimePart(hist.read) = IF fld.time.data = None THEN Midnight ELSE fld.time.data
       /\ (hist.formdata.date \in {<<"2011-01-01">>, <<"2011-02-01">>}
              /\ hist.formdata.time \in {<<"">>, <<"junk">>}) =>
             hist.read = combine(<<"date", hist.formdata.date[1]>>, Midnight)
       /\ (hist.bound \in DateTimes /\ NoPartsSubmitted) =>
             /\ fld.date.data = DatePart(hist.bound)
             /\ fld.time.data = TimePart(hist.bound)
             /\ hist.read = hist.bound

\* a midnight date-time was bound with nothing submitted and read back, and a
\* populate_obj wrote it to the object
C23_Witness ==
    /\ hist.bound = combine(<<"date", "2011-02-01">>, Midnight)
    /\ hist.formdata = NoParts
    /\ hist.read = combine(<<"date", "2011-02-01">>, Midnight)
    /\ obj.pub_date = hist.read

(***************************************************************************)
(* The precedence of the rules of ModelConverter.convert.                  *)
(***************************************************************************)
\* the keys of the keyword arguments accumulated before a rule is chosen
AccumulatedKeys(col) ==
    {"label", "validators", "filters", "default", "description"}
        \cup DOMAIN Override(col.name)

\* the accumulated value of a key that holds no list
AccumulatedValue(col, k) ==
    IF Has(Override(col.name), k) THEN Override(col.name)[k]
    ELSE CASE k = "label" -> PyStr(col.verbose_name)
           [] k = "default" -> col.default
           [] k = "description" -> PyStr(col.help_text)

\* the keys a rule sets or removes itself after it received the arguments
RuleOwned == {"filters", "choices", "coerce", "allow_blank", "query", "model"}

\* kw holds the accumulated arguments: every accumulated key the rule does
\* not own, with the accumulated value where the value is not a list
Accumulated(kw, col) ==
    /\ AccumulatedKeys(col) \ RuleOwned \subseteq DOMAIN kw
    /\ DOMAIN kw \ RuleOwned \subseteq AccumulatedKeys(col)
    /\ \A k \in AccumulatedKeys(col) \ (RuleOwned \cup {"validators"}) :
           kw[k] = AccumulatedValue(col, k)

\* kw is exactly what was accumulated, nothing added and nothing removed
Untouched(kw, col) ==
    /\ DOMAIN kw = AccumulatedKeys(col)
    /\ \A k \in AccumulatedKeys(col) \ {"validators", "filters"} :
           kw[k] = AccumulatedValue(col, k)

ByOverride(col) == col.name \in DOMAIN converter.overrides
ByHook(col) == ~ByOverride(col) /\ col.has_wtf_field
BySpecial(col) ==
    ~ByOverride(col) /\ ~col.has_wtf_field /\ FirstMatch(converter.converters, col.type) # 0
ByDefaults(col) ==
    /\ ~ByOverride(col) /\ ~col.has_wtf_field
    /\ FirstMatch(converter.converters, col.type) = 0
    /\ FirstMatch(defaults, col.type) # 0

\* the field class the special converter registered for the column produces
SpecialClasses(col) ==
    LET handler == converter.converters[FirstMatch(converter.converters, col.type)][2]
    IN  IF handler = "handle_foreign_key"
        THEN {"SelectQueryField", "ModelSelectField"}
        ELSE {handler}

\* C24: every generated field is produced by one rule, chosen in this order: the
\* converter's override for the column's name, else the column's own wtf_field
\* hook, else the first special converter (foreign key or additional) the column
\* is an instance of, else the defaults registry (with its choice-field rule);
\* whichever rule it is, the field carries the accumulated keyword arguments
\* (label, default, description and the caller's overrides, the validators and
\* filters lists), untouched under an override, a hook or an additional converter;
\* and each form class holds one field per converted column.
C24_RulePrecedence ==
    \A p \in Generated :
        LET info == FieldAt(p)
            col == Descriptor(info.name)
        IN  /\ ByOverride(col) =>
                  info.cls = converter.overrides[col.name] /\ Untouched(info.kwargs, col)
            /\ ByHook(col) =>
                  info.cls = "wtf_field" /\ Untouched(info.kwargs, col)
            /\ BySpecial(col) =>
                  /\ info.cls \in SpecialClasses(col)
                  /\ info.cls \notin {"SelectQueryField", "ModelSelectField"} =>
                        Untouched(info.kwargs, col)
            /\ ByDefaults(col) =>
                  info.cls \in {defaults[FirstMatch(defaults, col.type)][2],
                                "SelectChoicesField"}
            /\ Accumulated(info.kwargs, col)
            /\ Cardinality({i \in 1..Len(forms[p[1]].fields) :
                               forms[p[1]].fields[i].name = info.name}) = 1

\* a form class whose fields were produced by all four rules, each for a
\* column a lower rule would also have converted: an override for a column with
\* a hook, a hook on a foreign key, an additional converter for a short-text
\* column, and the defaults registry
C24_Witness ==
    \E p, q, r, t \in Generated :
        /\ p[1] = q[1] /\ q[1] = r[1] /\ r[1] = t[1]
        /\ ByOverride(Descriptor(FieldAt(p).name))
        /\ Descriptor(FieldAt(p).name).has_wtf_field
        /\ FirstMatch(converter.converters, Descriptor(FieldAt(p).name).type) # 0
        /\ ByOverride(Descriptor(FieldAt(q).name))
        /\ Descriptor(FieldAt(q).name).type = "ForeignKeyField"
        /\ BySpecial(Descriptor(FieldAt(r).name))
        /\ FirstMatch(defaults, Descriptor(FieldAt(r).name).type) # 0
        /\ ByDefaults(Descriptor(FieldAt(t).name))

====
